---- MODULE Spec2Model ----
(***************************************************************************)
(* Model of the Personal Expense Tracker (src/expense_tracker/app.py).     *)
(*                                                                         *)
(* State: the two module globals (user_data, expense_cache), the two data  *)
(* files (users.json, expenses.csv), the Flask session cookie of every     *)
(* client, and the wall clock.  One action per route handler; every        *)
(* handler records its response in `last`.  `requests` holds the          *)
(* save_expenses requests that server threads have started and not yet     *)
(* finished (used where handlers run concurrently).                        *)
(*                                                                         *)
(* Text that the code inspects character by character (dates, amounts,     *)
(* categories) is a sequence of one-character strings.  A Python float is  *)
(* an integer number of tenths (50.0 is 500, 12.5 is 125).  An amount is   *)
(* tagged with its Python type: [float |-> 500] in the cache, [str |->     *)
(* <<"5", "0", ".", "0">>] in a row read from the csv file.                *)
(***************************************************************************)
EXTENDS Integers, Sequences, FiniteSets, TLC

VARIABLES user_data, users_json, expense_cache, expenses_csv, session, now, last,
          requests

vars == <<user_data, users_json, expense_cache, expenses_csv, session, now, last,
          requests>>

----------------------------------------------------------------------------
(* Bounds of the model *)

MaxRecords == 2   \* expense records alive at once (cache + file)
MaxTicks == 3     \* steps of the clock

----------------------------------------------------------------------------
(* Program constants *)

TOKEN_TIMEOUT_MINUTES == 10

----------------------------------------------------------------------------
(* Python dicts and text *)

(* A data file: whether it exists and, if so, what it holds *)
NoFile(empty) == [exists |-> FALSE, content |-> empty]

File(content) == [exists |-> TRUE, content |-> content]

EmptyDict == <<>>

Put(d, k, v) == [x \in (DOMAIN d) \cup {k} |-> IF x = k THEN v ELSE d[x]]

Pop(d, k) == [x \in (DOMAIN d) \ {k} |-> d[x]]

Digits == {"0", "1", "2", "3", "4", "5", "6", "7", "8", "9"}

DigitVal(c) ==
  CASE c = "0" -> 0 [] c = "1" -> 1 [] c = "2" -> 2 [] c = "3" -> 3
    [] c = "4" -> 4 [] c = "5" -> 5 [] c = "6" -> 6 [] c = "7" -> 7
    [] c = "8" -> 8 [] c = "9" -> 9

DigitChar(n) ==
  CASE n = 0 -> "0" [] n = 1 -> "1" [] n = 2 -> "2" [] n = 3 -> "3"
    [] n = 4 -> "4" [] n = 5 -> "5" [] n = 6 -> "6" [] n = 7 -> "7"
    [] n = 8 -> "8" [] n = 9 -> "9"

Letters ==
  {"a", "b", "c", "d", "e", "f", "g", "h", "i", "j", "k", "l", "m",
   "n", "o", "p", "q", "r", "s", "t", "u", "v", "w", "x", "y", "z",
   "A", "B", "C", "D", "E", "F", "G", "H", "I", "J", "K", "L", "M",
   "N", "O", "P", "Q", "R", "S", "T", "U", "V", "W", "X", "Y", "Z"}

AllDigits(s) == \A i \in DOMAIN s : s[i] \in Digits

RECURSIVE DecimalValue(_)
DecimalValue(s) ==
  IF s = <<>> THEN 0
  ELSE 10 * DecimalValue(SubSeq(s, 1, Len(s) - 1)) + DigitVal(s[Len(s)])

RECURSIVE DecimalDigits(_)
DecimalDigits(n) ==
  IF n < 10 THEN <<DigitChar(n)>>
  ELSE Append(DecimalDigits(n \div 10), DigitChar(n % 10))

(* Python's `$` also matches just before one trailing newline. *)
StripTrailingNewline(s) ==
  IF Len(s) > 0 /\ s[Len(s)] = "\n" THEN SubSeq(s, 1, Len(s) - 1) ELSE s

----------------------------------------------------------------------------
(* float(text) and str(float), for the literals the forms submit:          *)
(* [-]digits[.digit].  Anything else raises ValueError.                    *)

DotAt(s) == IF \E i \in DOMAIN s : s[i] = "." 
            THEN CHOOSE i \in DOMAIN s : s[i] = "." /\ \A j \in 1..(i - 1) : s[j] # "."
            ELSE 0

Unsigned(s) == IF Len(s) > 0 /\ s[1] = "-" THEN Tail(s) ELSE s

IsFloatLiteral(s) ==
  LET u == Unsigned(s)
      d == DotAt(u)
  IN  IF d = 0
      THEN Len(u) > 0 /\ AllDigits(u)
      ELSE /\ d > 1
           /\ AllDigits(SubSeq(u, 1, d - 1))
           /\ Len(u) = d + 1
           /\ u[d + 1] \in Digits

float(s) ==
  LET u == Unsigned(s)
      d == DotAt(u)
      tenths == IF d = 0 THEN 10 * DecimalValue(u)
                ELSE 10 * DecimalValue(SubSeq(u, 1, d - 1)) + DigitVal(u[d + 1])
  IN  IF Len(s) > 0 /\ s[1] = "-" THEN 0 - tenths ELSE tenths

FloatStr(x) ==
  LET a == IF x < 0 THEN 0 - x ELSE x
      body == DecimalDigits(a \div 10) \o <<".", DigitChar(a % 10)>>
  IN  IF x < 0 THEN <<"-">> \o body ELSE body

----------------------------------------------------------------------------
(* Validators *)

IsLeap(y) == (y % 4 = 0 /\ y % 100 # 0) \/ y % 400 = 0

DaysInMonth(y, m) ==
  IF m = 2 THEN (IF IsLeap(y) THEN 29 ELSE 28)
  ELSE IF m \in {4, 6, 9, 11} THEN 30 ELSE 31

DatePattern(s) ==
  LET t == StripTrailingNewline(s)
  IN  /\ Len(t) = 10
      /\ \A i \in {1, 2, 3, 4, 6, 7, 9, 10} : t[i] \in Digits
      /\ t[5] = "-"
      /\ t[8] = "-"

DateYear(s) == DecimalValue(SubSeq(s, 1, 4))

DateMonth(s) == DecimalValue(SubSeq(s, 6, 7))

DateDay(s) == DecimalValue(SubSeq(s, 9, 10))

(* datetime.strptime(s, '%Y-%m-%d') succeeds *)
StrptimeOk(s) ==
  /\ Len(s) = 10
  /\ \A i \in {1, 2, 3, 4, 6, 7, 9, 10} : s[i] \in Digits
  /\ s[5] = "-"
  /\ s[8] = "-"
  /\ DateYear(s) >= 1
  /\ DateMonth(s) \in 1..12
  /\ DateDay(s) \in 1..DaysInMonth(DateYear(s), DateMonth(s))

validate_date(date_string) ==
  IF ~DatePattern(date_string) THEN FALSE ELSE StrptimeOk(date_string)

validate_amount(amount) ==
  IF IsFloatLiteral(amount) THEN float(amount) >= 0 ELSE FALSE

validate_category(category) ==
  LET t == StripTrailingNewline(category)
  IN  /\ Len(category) > 0
      /\ Len(t) > 0
      /\ \A i \in DOMAIN t : t[i] \in Letters \cup Digits \cup {" "}

validate_description(description) == description # ""

----------------------------------------------------------------------------
(* Inputs the clients submit *)

Users == {"alice", "bob"}

Clients == {"c1"}

Passwords == {"pw"}

LoginPasswords == {"pw", "default_password"}

Methods == {"GET", "POST"}

D_Feb2024 == <<"2", "0", "2", "4", "-", "0", "2", "-", "2", "9">>

D_Feb2023 == <<"2", "0", "2", "3", "-", "0", "2", "-", "1", "0">>

D_Mar2024 == <<"2", "0", "2", "4", "-", "0", "3", "-", "0", "1">>

D_Feb30 == <<"2", "0", "2", "4", "-", "0", "2", "-", "3", "0">>

A_50 == <<"5", "0">>

A_Minus10 == <<"-", "1", "0">>

A_abc == <<"a", "b", "c">>

B_200 == <<"2", "0", "0">>

B_30 == <<"3", "0">>

BudgetInputs == {B_200, B_30, A_Minus10}

Cat_Food2 == <<"F", "o", "o", "d", " ", "2">>

Form(date, category, amount, description) ==
  [date |-> date, category |-> category, amount |-> amount, description |-> description]

ValidForms ==
  {Form(d, Cat_Food2, A_50, "lunch") : d \in {D_Feb2024, D_Feb2023, D_Mar2024}}

InvalidForms ==
  {Form(D_Feb30, Cat_Food2, A_50, "lunch"),
   Form(D_Feb2024, Cat_Food2, A_Minus10, "lunch"),
   Form(D_Feb2024, Cat_Food2, A_abc, "lunch"),
   Form(D_Feb2024, <<>>, A_50, "lunch"),
   Form(D_Feb2024, Cat_Food2, A_50, "")}

Forms == ValidForms \cup InvalidForms

(* a category that ends in a line feed *)
Cat_FoodNewline == <<"F", "o", "o", "d", "\n">>

ValidityForms == Forms \cup {Form(D_Feb2024, Cat_FoodNewline, A_50, "lunch")}

ExpenseIds == {"0"}

----------------------------------------------------------------------------
(* The clock.  `now` counts minutes since 23:50 on ClockStartDate, the     *)
(* last day of a month, so the month of datetime.now() moves on ten        *)
(* minutes in; the year stays the same.                                    *)

ClockStartDate == D_Feb2024

TickMinutes == 5

MinutesToMidnight == 10

NowYear(t) == DateYear(ClockStartDate)

NowMonth(t) ==
  IF t < MinutesToMidnight THEN DateMonth(ClockStartDate)
  ELSE DateMonth(ClockStartDate) + 1

----------------------------------------------------------------------------
(* Password hashing (werkzeug): the hash is opaque and only compared       *)
(* through check_password_hash.                                            *)

generate_password_hash(password) == [pbkdf2 |-> password]

check_password_hash(hash, password) == hash.pbkdf2 = password

----------------------------------------------------------------------------
(* users.json *)

load_user_data == IF users_json.exists THEN users_json.content ELSE EmptyDict

(* save_user_data: returns the dict as left in memory (a missing hash is   *)
(* filled in with a default one) and the content written to the file.      *)
WithDefaultHash(user_info) ==
  IF "password_hash" \notin DOMAIN user_info
  THEN Put(user_info, "password_hash", generate_password_hash("default_password"))
  ELSE user_info

save_user_data(ud) ==
  LET filled == [u \in DOMAIN ud |-> WithDefaultHash(ud[u])]
  IN  [user_data |-> filled,
       users_json |-> File([u \in DOMAIN filled |->
                              [password_hash |-> filled[u]["password_hash"],
                               monthly_budget |-> filled[u]["monthly_budget"]]])]

(* get_user_monthly_budget: returns the dict (the user is loaded from the  *)
(* file when absent) and the budget.                                       *)
get_user_monthly_budget(ud, username) ==
  LET user_data_json == load_user_data
      ud2 == IF username \notin DOMAIN ud /\ username \in DOMAIN user_data_json
             THEN Put(ud, username, user_data_json[username])
             ELSE ud
  IN  [user_data |-> ud2,
       value |-> IF username \in DOMAIN ud2
                 THEN (IF "monthly_budget" \in DOMAIN ud2[username]
                       THEN ud2[username]["monthly_budget"] ELSE 0)
                 ELSE 0]

set_user_monthly_budget(ud, username, budget) ==
  LET ud1 == IF username \notin DOMAIN ud THEN Put(ud, username, EmptyDict) ELSE ud
      ud2 == Put(ud1, username, Put(ud1[username], "monthly_budget", budget))
  IN  save_user_data(ud2)

----------------------------------------------------------------------------
(* expenses.csv: a row holds the five columns as text *)

Row(expense) ==
  [username |-> expense.username,
   date |-> expense.date,
   category |-> expense.category,
   amount |-> [str |-> FloatStr(expense.amount.float)],
   description |-> expense.description]

RECURSIVE Rows(_)
Rows(expenses) ==
  IF expenses = <<>> THEN <<>> ELSE <<Row(Head(expenses))>> \o Rows(Tail(expenses))

OfUser(expenses, username) == SelectSeq(expenses, LAMBDA e : e.username = username)

NotOfUser(expenses, username) == SelectSeq(expenses, LAMBDA e : e.username # username)

load_expenses_all == IF expenses_csv.exists THEN expenses_csv.content ELSE <<>>

(* load_expenses ignoring the username it is given *)
load_expenses_unfiltered(username) == load_expenses_all

load_expenses(username) == OfUser(load_expenses_all, username)

RECURSIVE SumAmounts(_, _, _)
SumAmounts(expenses, current_month, isRow) ==
  IF expenses = <<>> THEN 0
  ELSE LET e == Head(expenses)
           amount == IF isRow THEN float(e.amount.str) ELSE e.amount.float
       IN  (IF DateMonth(e.date) = current_month THEN amount ELSE 0)
             + SumAmounts(Tail(expenses), current_month, isRow)

(* calculate_total_expenses; the file must exist (open() raises otherwise) *)
calculate_total_expenses(username) ==
  LET current_month == NowMonth(now)
  IN  SumAmounts(OfUser(expenses_csv.content, username), current_month, TRUE)
        + SumAmounts(OfUser(expense_cache, username), current_month, FALSE)

----------------------------------------------------------------------------
(* Sessions *)

(* has_token_timed_out with the comparison off by one (>= for >) *)
has_token_timed_out_at_limit(s) ==
  IF "login_time" \in DOMAIN s
  THEN now - s["login_time"] >= TOKEN_TIMEOUT_MINUTES
  ELSE TRUE

has_token_timed_out(s) ==
  IF "login_time" \in DOMAIN s
  THEN now - s["login_time"] > TOKEN_TIMEOUT_MINUTES
  ELSE TRUE

(* the condition under which the login_required wrapper redirects *)
login_required(s) ==
  \/ "logged_in" \notin DOMAIN s
  \/ ~s["logged_in"]
  \/ has_token_timed_out(s)

(* What a handler hands back, as a record named after its content, so that *)
(* two responses can always be compared.                                   *)
NoValue == [none |-> TRUE]

Resp(op, c, status, value) ==
  [op |-> op, client |-> c, status |-> status, value |-> value]

Redirected(op, c) ==
  /\ last' = Resp(op, c, "login_required", NoValue)
  /\ UNCHANGED <<user_data, users_json, expense_cache, expenses_csv, session, now, requests>>

(* Server threads, and the locals of a save_expenses request in flight *)
Threads == {"t1", "t2"}

Idle ==
  [pc |-> "idle", client |-> "-", username |-> "-",
   existing_expenses |-> <<>>, current_user_cache_expenses |-> <<>>]

(* The records alive: cached, in the file, or held by a request that has   *)
(* emptied the file and not yet rewritten it.                              *)
RECURSIVE HeldRows(_)
HeldRows(threads) ==
  IF threads = {} THEN 0
  ELSE LET t == CHOOSE x \in threads : TRUE
       IN  (IF requests[t].pc = "opened" THEN Len(requests[t].existing_expenses) ELSE 0)
             + HeldRows(threads \ {t})

RecordCount == Len(expense_cache) + Len(load_expenses_all) + HeldRows(Threads)

----------------------------------------------------------------------------
(* Initial state: a fresh install, no data file written yet *)

Init ==
  /\ user_data = EmptyDict
  /\ users_json = NoFile(EmptyDict)
  /\ expense_cache = <<>>
  /\ expenses_csv = NoFile(<<>>)
  /\ session = [c \in Clients |-> EmptyDict]
  /\ now = 0
  /\ last = Resp("start", "-", "ok", NoValue)
  /\ requests = [t \in Threads |-> Idle]

----------------------------------------------------------------------------
(* Route handlers *)

register(c, method, username, password) ==
  /\ UNCHANGED <<expense_cache, expenses_csv, session, now, requests>>
  /\ IF method = "POST"
     THEN LET existing_users == load_user_data
          IN  IF username \in DOMAIN existing_users
              THEN /\ last' = Resp("register", c, "username_exists", NoValue)
                   /\ UNCHANGED <<user_data, users_json>>
              ELSE LET saved == save_user_data(
                                  Put(user_data, username,
                                      [password_hash |-> generate_password_hash(password),
                                       monthly_budget |-> 0]))
                   IN  /\ user_data' = saved.user_data
                       /\ users_json' = saved.users_json
                       /\ last' = Resp("register", c, "registered", [username |-> username])
     ELSE /\ last' = Resp("register", c, "form", NoValue)
          /\ UNCHANGED <<user_data, users_json>>

login(c, method, username, password) ==
  /\ UNCHANGED <<user_data, users_json, expense_cache, expenses_csv, now, requests>>
  /\ IF method = "POST"
     THEN LET existing_users == load_user_data
          IN  IF username \notin DOMAIN existing_users
              THEN /\ last' = Resp("login", c, "invalid_username", NoValue)
                   /\ UNCHANGED session
              ELSE IF ~check_password_hash(existing_users[username]["password_hash"], password)
              THEN /\ last' = Resp("login", c, "invalid_password", NoValue)
                   /\ UNCHANGED session
              ELSE /\ session' = [session EXCEPT ![c] =
                                    Put(Put(Put(@, "logged_in", TRUE),
                                            "username", username),
                                        "login_time", now)]
                   /\ last' = Resp("login", c, "logged_in", [username |-> username])
     ELSE /\ last' = Resp("login", c, "form", NoValue)
          /\ UNCHANGED session

(* logout leaving the session as it is *)
logout_keep_session(c) ==
  /\ session' = session
  /\ last' = Resp("logout", c, "logged_out", NoValue)
  /\ UNCHANGED <<user_data, users_json, expense_cache, expenses_csv, now, requests>>

logout(c) ==
  /\ session' = [session EXCEPT ![c] =
                   Pop(Pop(Pop(@, "logged_in"), "username"), "login_time")]
  /\ last' = Resp("logout", c, "logged_out", NoValue)
  /\ UNCHANGED <<user_data, users_json, expense_cache, expenses_csv, now, requests>>

home(c) ==
  IF login_required(session[c]) THEN Redirected("home", c)
  ELSE LET username == session[c]["username"]
           got == get_user_monthly_budget(user_data, username)
       IN  /\ user_data' = got.user_data
           /\ last' = Resp("home", c, "ok", [monthly_budget |-> got.value])
           /\ UNCHANGED <<users_json, expense_cache, expenses_csv, session, now, requests>>

FormStatus(form) ==
  IF ~validate_date(form.date) THEN "invalid_date"
  ELSE IF ~validate_amount(form.amount) THEN "invalid_amount"
  ELSE IF ~validate_category(form.category) THEN "invalid_category"
  ELSE IF ~validate_description(form.description) THEN "invalid_description"
  ELSE "valid"

NewExpense(username, form) ==
  [username |-> username,
   date |-> form.date,
   category |-> form.category,
   amount |-> [float |-> float(form.amount)],
   description |-> form.description]

(* add_expense putting the new record in front of the cache *)
add_expense_prepend(c, method, form) ==
  IF login_required(session[c]) THEN Redirected("add_expense", c)
  ELSE /\ UNCHANGED <<user_data, users_json, expenses_csv, session, now, requests>>
       /\ IF method = "POST"
          THEN LET username == session[c]["username"]
               IN  IF FormStatus(form) # "valid"
                   THEN /\ last' = Resp("add_expense", c, FormStatus(form), NoValue)
                        /\ UNCHANGED expense_cache
                   ELSE /\ RecordCount < MaxRecords
                        /\ expense_cache' = <<NewExpense(username, form)>> \o expense_cache
                        /\ last' = Resp("add_expense", c, "added", form)
          ELSE /\ last' = Resp("add_expense", c, "form", NoValue)
               /\ UNCHANGED expense_cache

add_expense(c, method, form) ==
  IF login_required(session[c]) THEN Redirected("add_expense", c)
  ELSE /\ UNCHANGED <<user_data, users_json, expenses_csv, session, now, requests>>
       /\ IF method = "POST"
          THEN LET username == session[c]["username"]
               IN  IF FormStatus(form) # "valid"
                   THEN /\ last' = Resp("add_expense", c, FormStatus(form), NoValue)
                        /\ UNCHANGED expense_cache
                   ELSE /\ RecordCount < MaxRecords
                        /\ expense_cache' = Append(expense_cache, NewExpense(username, form))
                        /\ last' = Resp("add_expense", c, "added", form)
          ELSE /\ last' = Resp("add_expense", c, "form", NoValue)
               /\ UNCHANGED expense_cache

view_expenses(c) ==
  IF login_required(session[c]) THEN Redirected("view_expenses", c)
  ELSE LET username == session[c]["username"]
           existing_expenses == load_expenses(username)
           current_user_cache_expenses == OfUser(expense_cache, username)
           all_expenses == existing_expenses \o current_user_cache_expenses
       IN  /\ last' = Resp("view_expenses", c, "ok", [expenses |-> all_expenses])
           /\ UNCHANGED <<user_data, users_json, expense_cache, expenses_csv, session, now, requests>>

set_monthly_budget(c, method, budget) ==
  IF login_required(session[c]) THEN Redirected("set_monthly_budget", c)
  ELSE /\ UNCHANGED <<expense_cache, expenses_csv, session, now, requests>>
       /\ IF method = "POST"
          THEN LET username == session[c]["username"]
               IN  IF ~validate_amount(budget)
                   THEN /\ last' = Resp("set_monthly_budget", c, "invalid_budget", NoValue)
                        /\ UNCHANGED <<user_data, users_json>>
                   ELSE LET saved == set_user_monthly_budget(user_data, username, float(budget))
                        IN  /\ user_data' = saved.user_data
                            /\ users_json' = saved.users_json
                            /\ last' = Resp("set_monthly_budget", c, "budget_set", [budget |-> float(budget)])
          ELSE /\ last' = Resp("set_monthly_budget", c, "form", NoValue)
               /\ UNCHANGED <<user_data, users_json>>

(* save_expenses writing only the user's cached records: the rows already *)
(* in the file are not carried over                                        *)
save_expenses_overwrite(c) ==
  IF login_required(session[c]) THEN Redirected("save_expenses", c)
  ELSE LET username == session[c]["username"]
           current_user_cache_expenses == OfUser(expense_cache, username)
       IN  /\ expenses_csv' = File(Rows(current_user_cache_expenses))
           /\ expense_cache' = NotOfUser(expense_cache, username)
           /\ last' = Resp("save_expenses", c, "saved", [written |-> current_user_cache_expenses])
           /\ UNCHANGED <<user_data, users_json, session, now, requests>>

(* save_expenses writing the user's cached records in front of the rows    *)
(* already in the file                                                     *)
save_expenses_newest_first(c) ==
  IF login_required(session[c]) THEN Redirected("save_expenses", c)
  ELSE LET username == session[c]["username"]
           existing_expenses == load_expenses_all
           current_user_cache_expenses == OfUser(expense_cache, username)
       IN  /\ expenses_csv' = File(Rows(current_user_cache_expenses) \o existing_expenses)
           /\ expense_cache' = NotOfUser(expense_cache, username)
           /\ last' = Resp("save_expenses", c, "saved", [written |-> current_user_cache_expenses])
           /\ UNCHANGED <<user_data, users_json, session, now, requests>>

(* save_expenses emptying the whole cache instead of the user's part of it *)
save_expenses_clear_all(c) ==
  IF login_required(session[c]) THEN Redirected("save_expenses", c)
  ELSE LET username == session[c]["username"]
           existing_expenses == load_expenses_all
           current_user_cache_expenses == OfUser(expense_cache, username)
       IN  /\ expenses_csv' = File(existing_expenses \o Rows(current_user_cache_expenses))
           /\ expense_cache' = <<>>
           /\ last' = Resp("save_expenses", c, "saved", [written |-> current_user_cache_expenses])
           /\ UNCHANGED <<user_data, users_json, session, now, requests>>

(* the response records the list of records the handler wrote *)
save_expenses(c) ==
  IF login_required(session[c]) THEN Redirected("save_expenses", c)
  ELSE LET username == session[c]["username"]
           existing_expenses == load_expenses_all
           current_user_cache_expenses == OfUser(expense_cache, username)
       IN  /\ expenses_csv' = File(existing_expenses \o Rows(current_user_cache_expenses))
           /\ expense_cache' = NotOfUser(expense_cache, username)
           /\ last' = Resp("save_expenses", c, "saved", [written |-> current_user_cache_expenses])
           /\ UNCHANGED <<user_data, users_json, session, now, requests>>

track_budget(c) ==
  IF login_required(session[c]) THEN Redirected("track_budget", c)
  ELSE LET username == session[c]["username"]
           got == get_user_monthly_budget(user_data, username)
           monthly_budget == got.value
       IN  /\ user_data' = got.user_data
           /\ UNCHANGED <<users_json, expense_cache, expenses_csv, session, now, requests>>
           /\ IF ~expenses_csv.exists
              THEN last' = Resp("track_budget", c, "error", [exception |-> "FileNotFoundError"])
              ELSE LET total_expenses == calculate_total_expenses(username)
                   IN  last' = Resp("track_budget", c, "ok",
                                    [monthly_budget |-> monthly_budget,
                                     total_expenses |-> total_expenses,
                                     remaining_budget |-> monthly_budget - total_expenses])

(* save_expenses as a server thread runs it next to other requests: no     *)
(* lock is taken, so other handlers may run between its statements.        *)
(* Lines 490-493: the username and the rows of the file are read.          *)
save_start(t, c) ==
  /\ requests[t].pc = "idle"
  /\ IF login_required(session[c]) THEN Redirected("save_expenses", c)
     ELSE /\ requests' = [requests EXCEPT ![t] =
                            [pc |-> "loaded", client |-> c,
                             username |-> session[c]["username"],
                             existing_expenses |-> load_expenses_all,
                             current_user_cache_expenses |-> <<>>]]
          /\ UNCHANGED <<user_data, users_json, expense_cache, expenses_csv,
                         session, now, last>>

(* Line 494: the user's cached records are collected *)
save_snapshot(t) ==
  /\ requests[t].pc = "loaded"
  /\ requests' = [requests EXCEPT ![t] =
                    [@ EXCEPT !.pc = "snapshot",
                              !.current_user_cache_expenses =
                                 OfUser(expense_cache, requests[t].username)]]
  /\ UNCHANGED <<user_data, users_json, expense_cache, expenses_csv, session, now, last>>

(* Line 498: open(expense_data_file, 'w') empties the file.  Two threads   *)
(* holding the file open for writing at once are left out: the bytes that  *)
(* results from their overlapping writes is not modelled.                  *)
save_open(t) ==
  /\ requests[t].pc = "snapshot"
  /\ \A o \in Threads : requests[o].pc # "opened"
  /\ expenses_csv' = File(<<>>)
  /\ requests' = [requests EXCEPT ![t] = [@ EXCEPT !.pc = "opened"]]
  /\ UNCHANGED <<user_data, users_json, expense_cache, session, now, last>>

(* Lines 499-504: the header and all rows are written and the file closed *)
save_write(t) ==
  /\ requests[t].pc = "opened"
  /\ expenses_csv' = File(requests[t].existing_expenses
                            \o Rows(requests[t].current_user_cache_expenses))
  /\ requests' = [requests EXCEPT ![t] = [@ EXCEPT !.pc = "written"]]
  /\ UNCHANGED <<user_data, users_json, expense_cache, session, now, last>>

(* Lines 498-504 as one step: the file is opened for writing, the header   *)
(* and all rows are written and the file is closed.                        *)
save_rewrite(t) ==
  /\ requests[t].pc = "snapshot"
  /\ expenses_csv' = File(requests[t].existing_expenses
                            \o Rows(requests[t].current_user_cache_expenses))
  /\ requests' = [requests EXCEPT ![t] = [@ EXCEPT !.pc = "written"]]
  /\ UNCHANGED <<user_data, users_json, expense_cache, session, now, last>>

(* Lines 506-510: the user's records are taken out of the cache *)
save_clear(t) ==
  /\ requests[t].pc = "written"
  /\ expense_cache' = NotOfUser(expense_cache, requests[t].username)
  /\ last' = Resp("save_expenses", requests[t].client, "saved",
                  [written |-> requests[t].current_user_cache_expenses])
  /\ requests' = [requests EXCEPT ![t] = Idle]
  /\ UNCHANGED <<user_data, users_json, expenses_csv, session, now>>

(* expense['id'] raises KeyError on the first record of the user that has  *)
(* no 'id' key (the `and` evaluates it only for the user's own records)    *)
IdKeyError(username) ==
  \E i \in DOMAIN expense_cache :
     /\ expense_cache[i].username = username
     /\ "id" \notin DOMAIN expense_cache[i]

Matching(username, expense_id) ==
  {i \in DOMAIN expense_cache :
     expense_cache[i].username = username /\ expense_cache[i]["id"] = expense_id}

edit_expense(c, method, expense_id, form) ==
  IF login_required(session[c]) THEN Redirected("edit_expense", c)
  ELSE LET username == session[c]["username"]
       IN  /\ UNCHANGED <<user_data, users_json, expenses_csv, session, now, requests>>
           /\ IF IdKeyError(username)
              THEN /\ last' = Resp("edit_expense", c, "error", [exception |-> "KeyError"])
                   /\ UNCHANGED expense_cache
              ELSE IF Matching(username, expense_id) = {}
              THEN /\ last' = Resp("edit_expense", c, "not_found", NoValue)
                   /\ UNCHANGED expense_cache
              ELSE IF method = "POST"
              THEN IF FormStatus(form) # "valid"
                   THEN /\ last' = Resp("edit_expense", c, FormStatus(form), NoValue)
                        /\ UNCHANGED expense_cache
                   ELSE LET i == CHOOSE k \in Matching(username, expense_id) :
                                   \A j \in Matching(username, expense_id) : k <= j
                        IN  /\ expense_cache' =
                                 [expense_cache EXCEPT ![i] =
                                    Put(Put(Put(Put(@, "description", form.description),
                                                "amount", [float |-> float(form.amount)]),
                                            "date", form.date),
                                        "category", form.category)]
                            /\ last' = Resp("edit_expense", c, "edited", form)
              ELSE /\ last' = Resp("edit_expense", c, "form", NoValue)
                   /\ UNCHANGED expense_cache

delete_expense(c, expense_id) ==
  IF login_required(session[c]) THEN Redirected("delete_expense", c)
  ELSE LET username == session[c]["username"]
       IN  /\ UNCHANGED <<user_data, users_json, expenses_csv, session, now, requests>>
           /\ IF IdKeyError(username)
              THEN /\ last' = Resp("delete_expense", c, "error", [exception |-> "KeyError"])
                   /\ UNCHANGED expense_cache
              ELSE /\ expense_cache' =
                        SelectSeq(expense_cache,
                                  LAMBDA e : e.username = username /\ e["id"] # expense_id)
                   /\ last' = Resp("delete_expense", c, "deleted", NoValue)

(* The process is stopped and started again: the module globals are        *)
(* re-initialised, the files and the clients' cookies remain.              *)
Restart ==
  /\ user_data' = EmptyDict
  /\ expense_cache' = <<>>
  /\ last' = Resp("restart", "-", "ok", NoValue)
  /\ requests' = [t \in Threads |-> Idle]
  /\ UNCHANGED <<users_json, expenses_csv, session, now>>

Tick ==
  /\ now < MaxTicks * TickMinutes
  /\ now' = now + TickMinutes
  /\ last' = Resp("tick", "-", "ok", NoValue)
  /\ UNCHANGED <<user_data, users_json, expense_cache, expenses_csv, session, requests>>

(* Expense handling: registration, login and the expense routes, within   *)
(* one run of the process and within the session timeout.                  *)
Next ==
  \/ \E c \in Clients, m \in Methods, u \in Users, p \in Passwords : register(c, m, u, p)
  \/ \E c \in Clients, m \in Methods, u \in Users, p \in LoginPasswords : login(c, m, u, p)
  \/ \E c \in Clients : logout(c)
  \/ \E c \in Clients, m \in Methods, f \in Forms : add_expense(c, m, f)
  \/ \E c \in Clients : view_expenses(c)
  \/ \E c \in Clients : save_expenses(c)
  \/ \E c \in Clients : track_budget(c)
  \/ \E c \in Clients, m \in Methods, id \in ExpenseIds, f \in Forms : edit_expense(c, m, id, f)
  \/ \E c \in Clients, id \in ExpenseIds : delete_expense(c, id)

Spec == Init /\ [][Next]_vars

(* Budgets of one user: the budget routes together with the expense routes *)
NextBudget ==
  \/ \E c \in Clients, m \in Methods, p \in Passwords : register(c, m, "alice", p)
  \/ \E c \in Clients, m \in Methods, p \in LoginPasswords : login(c, m, "alice", p)
  \/ \E c \in Clients : home(c)
  \/ \E c \in Clients, m \in Methods, f \in ValidForms : add_expense(c, m, f)
  \/ \E c \in Clients, m \in Methods, b \in BudgetInputs : set_monthly_budget(c, m, b)
  \/ \E c \in Clients : save_expenses(c)
  \/ \E c \in Clients : track_budget(c)

SpecBudget == Init /\ [][NextBudget]_vars

(* The user table across restarts of the process *)
NextUsers ==
  \/ \E c \in Clients, m \in Methods, u \in Users, p \in Passwords : register(c, m, u, p)
  \/ \E c \in Clients, m \in Methods, u \in Users, p \in LoginPasswords : login(c, m, u, p)
  \/ \E c \in Clients : logout(c)
  \/ \E c \in Clients : home(c)
  \/ \E c \in Clients, m \in Methods, b \in BudgetInputs : set_monthly_budget(c, m, b)
  \/ Restart

SpecUsers == Init /\ [][NextUsers]_vars

(* Sessions over time: every protected route, the clock and one form *)
SessionForm == Form(D_Feb2024, Cat_Food2, A_50, "lunch")

NextSession ==
  \/ \E c \in Clients, u \in Users, p \in Passwords : register(c, "POST", u, p)
  \/ \E c \in Clients, u \in Users, p \in Passwords : login(c, "POST", u, p)
  \/ \E c \in Clients : logout(c)
  \/ \E c \in Clients : home(c)
  \/ \E c \in Clients : add_expense(c, "POST", SessionForm)
  \/ \E c \in Clients : view_expenses(c)
  \/ \E c \in Clients : set_monthly_budget(c, "POST", B_200)
  \/ \E c \in Clients : save_expenses(c)
  \/ \E c \in Clients : track_budget(c)
  \/ \E c \in Clients, id \in ExpenseIds : edit_expense(c, "POST", id, SessionForm)
  \/ \E c \in Clients, id \in ExpenseIds : delete_expense(c, id)
  \/ Tick

SpecSession == Init /\ [][NextSession]_vars

(* Handlers running concurrently in one process: one save_expenses request *)
(* at a time, statement by statement, next to adds and reads.              *)
NextConcurrent ==
  \/ \E c \in Clients, u \in Users, p \in Passwords : register(c, "POST", u, p)
  \/ \E c \in Clients, u \in Users, p \in Passwords : login(c, "POST", u, p)
  \/ \E c \in Clients : add_expense(c, "POST", SessionForm)
  \/ \E c \in Clients : view_expenses(c)
  \/ \E c \in Clients : save_start("t1", c)
  \/ save_snapshot("t1")
  \/ save_open("t1")
  \/ save_write("t1")
  \/ save_clear("t1")

SpecConcurrent == Init /\ [][NextConcurrent]_vars

(* Two save_expenses requests in flight, of two different users: a request *)
(* is started only while no request of the same user is in flight.         *)
OtherOwnerInFlight(t, c) ==
  IF login_required(session[c]) THEN TRUE
  ELSE \A o \in Threads \ {t} : requests[o].username # session[c]["username"]

(* The rows of the file a request in flight has read and will write back *)
RECURSIVE LoadedRows(_)
LoadedRows(threads) ==
  IF threads = {} THEN 0
  ELSE LET t == CHOOSE x \in threads : TRUE
       IN  (IF requests[t].pc # "idle" THEN Len(requests[t].existing_expenses) ELSE 0)
             + LoadedRows(threads \ {t})

NextTwoSaves ==
  \/ \E c \in Clients, u \in Users, p \in Passwords : register(c, "POST", u, p)
  \/ \E c \in Clients, u \in Users, p \in Passwords : login(c, "POST", u, p)
  \/ \E c \in Clients :
        RecordCount + LoadedRows(Threads) < MaxRecords /\ add_expense(c, "POST", SessionForm)
  \/ \E t \in Threads, c \in Clients : OtherOwnerInFlight(t, c) /\ save_start(t, c)
  \/ \E t \in Threads : save_snapshot(t)
  \/ \E t \in Threads : save_rewrite(t)
  \/ \E t \in Threads : save_clear(t)

SpecTwoSaves == Init /\ [][NextTwoSaves]_vars

(* Owners of records against the user table, over restarts *)
NextOwners ==
  \/ \E c \in Clients, u \in Users, p \in Passwords : register(c, "POST", u, p)
  \/ \E c \in Clients, u \in Users, p \in Passwords : login(c, "POST", u, p)
  \/ \E c \in Clients : logout(c)
  \/ \E c \in Clients : add_expense(c, "POST", SessionForm)
  \/ \E c \in Clients : save_expenses(c)
  \/ \E c \in Clients : set_monthly_budget(c, "POST", B_200)
  \/ Restart

SpecOwners == Init /\ [][NextOwners]_vars

(* One user submitting every form, the one with the line feed included *)
NextValidity ==
  \/ \E c \in Clients, p \in Passwords : register(c, "POST", "alice", p)
  \/ \E c \in Clients, p \in Passwords : login(c, "POST", "alice", p)
  \/ \E c \in Clients, f \in ValidityForms : add_expense(c, "POST", f)
  \/ \E c \in Clients : view_expenses(c)
  \/ \E c \in Clients : save_expenses(c)

SpecValidity == Init /\ [][NextValidity]_vars

----------------------------------------------------------------------------
(* Properties *)

CurrentUser(c) == session[c]["username"]

Served(op) == last.op = op /\ last.status # "login_required"

(* a row of the file read back: csv gives text, the amount is parsed again *)
ReadBack(row) ==
  [username |-> row.username,
   date |-> row.date,
   category |-> row.category,
   amount |-> [float |-> float(row.amount.str)],
   description |-> row.description]

RECURSIVE ReadBackAll(_)
ReadBackAll(rows) ==
  IF rows = <<>> THEN <<>> ELSE <<ReadBack(Head(rows))>> \o ReadBackAll(Tail(rows))

\* C1: after save_expenses has run for an owner, the owner has no pending
\* record left and the owner's committed records are those committed before
\* followed by the previously pending ones, each once, with the same field
\* values; nothing is lost and nothing is duplicated.
C1_FlushMovesPendingExactlyOnce ==
  [][Served("save_expenses")' =>
       LET owner == CurrentUser(last'.client)
       IN  /\ OfUser(expense_cache', owner) = <<>>
           /\ expenses_csv'.exists
           /\ ReadBackAll(OfUser(expenses_csv'.content, owner))
                = ReadBackAll(load_expenses(owner)) \o OfUser(expense_cache, owner)
           /\ Len(expenses_csv'.content)
                = Len(load_expenses_all) + Len(OfUser(expense_cache, owner))
           /\ SubSeq(expenses_csv'.content, 1, Len(load_expenses_all)) = load_expenses_all
    ]_vars

\* a flush that moved one pending record behind a record committed earlier
C1_Witness ==
  /\ Served("save_expenses")
  /\ Len(last.value.written) = 1
  /\ Len(OfUser(expenses_csv.content, CurrentUser(last.client))) = 2

\* C5: a successful add by a logged-in owner appends one record with the
\* submitted date, category, amount and description and that owner to the end
\* of the pending cache; the records already pending are unchanged.
C5_AddAppendsSubmittedRecord ==
  [][(last'.op = "add_expense" /\ last'.status = "added") =>
       LET owner == CurrentUser(last'.client)
           form == last'.value
           stored == expense_cache'[Len(expense_cache')]
       IN  /\ ~login_required(session[last'.client])
           /\ Len(expense_cache') = Len(expense_cache) + 1
           /\ SubSeq(expense_cache', 1, Len(expense_cache)) = expense_cache
           /\ stored.username = owner
           /\ stored.date = form.date
           /\ stored.category = form.category
           /\ stored.amount = [float |-> float(form.amount)]
           /\ stored.amount.float >= 0
           /\ stored.description = form.description
           /\ OfUser(expense_cache', owner) = Append(OfUser(expense_cache, owner), stored)
    ]_vars

\* an add on top of a record that was already pending
C5_Witness ==
  /\ last.op = "add_expense"
  /\ last.status = "added"
  /\ Len(expense_cache) = 2
  /\ expense_cache[1] # expense_cache[2]

(* the records of a list dated in the month and the year of `now` *)
InMonthAndYear(date) ==
  DateMonth(date) = NowMonth(now) /\ DateYear(date) = NowYear(now)

RECURSIVE SumOf(_)
SumOf(expenses) ==
  IF expenses = <<>> THEN 0 ELSE Head(expenses).amount.float + SumOf(Tail(expenses))

ThisMonth(expenses) == SelectSeq(expenses, LAMBDA e : InMonthAndYear(e.date))

\* C2: the total that track_budget shows is the sum of the amounts of the
\* owner's committed and pending records dated in the month and the year of
\* now; a record of the same month of another year contributes nothing.
C2_TotalCountsSameMonthAndYearOnly ==
  (last.op = "track_budget" /\ last.status = "ok") =>
    LET owner == CurrentUser(last.client)
    IN  last.value.total_expenses
          = SumOf(ThisMonth(ReadBackAll(load_expenses(owner))))
              + SumOf(ThisMonth(OfUser(expense_cache, owner)))

\* C3: with budget B, no committed record and pending records of the current
\* month summing to S, track_budget shows the remaining budget B - S (after a
\* set budget, with the new budget; negative when S exceeds it).
C3_RemainingBudgetOverPendingOnly ==
  \A c \in Clients :
    ( /\ Served("track_budget")
      /\ last.client = c
      /\ CurrentUser(c) \in DOMAIN load_user_data
      /\ load_expenses(CurrentUser(c)) = <<>>
      /\ OfUser(expense_cache, CurrentUser(c)) # <<>>
      /\ \A i \in DOMAIN expense_cache :
           expense_cache[i].username = CurrentUser(c)
             => InMonthAndYear(expense_cache[i].date) )
    => /\ last.status = "ok"
       /\ last.value.remaining_budget
            = load_user_data[CurrentUser(c)]["monthly_budget"]
                - SumOf(OfUser(expense_cache, CurrentUser(c)))

\* C4: every expense record carries an id given at creation, different from
\* the id of every other record of the same owner, and still carries it once
\* committed.
C4_EveryRecordHasOwnId ==
  LET all == load_expenses_all \o expense_cache
  IN  \A i \in DOMAIN all :
        /\ "id" \in DOMAIN all[i]
        /\ \A j \in DOMAIN all :
             (j # i /\ all[j].username = all[i].username /\ "id" \in DOMAIN all[j])
               => all[j]["id"] # all[i]["id"]

RegisteredUsers == DOMAIN load_user_data

\* C6: a username that is in the durable user table stays in it, whatever
\* register, set budget, login, logout or restart follows.
C6_RegisteredUserNeverDeleted ==
  [][\A u \in Users : u \in RegisteredUsers => u \in RegisteredUsers']_vars

\* C7: a delete by an owner who has no pending record succeeds and changes
\* neither the pending cache nor the committed store.
C7_DeleteWithNothingPendingIsNoOp ==
  [][(Served("delete_expense")'
        /\ OfUser(expense_cache, CurrentUser(last'.client)) = <<>>)
       => /\ last'.status = "deleted"
          /\ expense_cache' = expense_cache
          /\ expenses_csv' = expenses_csv
    ]_vars

HasId(e, expense_id) == "id" \in DOMAIN e /\ e["id"] = expense_id

\* C8: a delete removes at most the owner's record with the given id: the
\* pending records of other owners, and the owner's records with another id,
\* are all still in the cache in the same order.
C8_DeleteKeepsAllOtherRecords ==
  [][\A c \in Clients, id \in ExpenseIds :
       (delete_expense(c, id) /\ ~login_required(session[c]))
         => LET others(cache) ==
                  SelectSeq(cache, LAMBDA e : ~(e.username = CurrentUser(c) /\ HasId(e, id)))
            IN  others(expense_cache') = others(expense_cache)
    ]_vars

ValidationErrors ==
  {"invalid_date", "invalid_amount", "invalid_category", "invalid_description"}

\* C9: an edit of one of the owner's pending records that submits an invalid
\* field is answered with a validation error and changes no record.
C9_InvalidEditRejectedUnchanged ==
  [][\A c \in Clients, id \in ExpenseIds, f \in InvalidForms :
       ( /\ edit_expense(c, "POST", id, f)
         /\ ~login_required(session[c])
         /\ OfUser(expense_cache, CurrentUser(c)) # <<>> )
         => /\ last'.status \in ValidationErrors
            /\ expense_cache' = expense_cache
            /\ expenses_csv' = expenses_csv
    ]_vars

\* C10: an edit for which no pending record matches the owner and the id,
\* also when the owner has other pending records, is answered with "Expense
\* not found" and changes no pending or committed record.
C10_EditOfAbsentRecordNotFound ==
  [][\A c \in Clients, m \in Methods, id \in ExpenseIds, f \in Forms :
       ( /\ edit_expense(c, m, id, f)
         /\ ~login_required(session[c])
         /\ \A i \in DOMAIN expense_cache :
              ~(expense_cache[i].username = CurrentUser(c) /\ HasId(expense_cache[i], id)) )
         => /\ last'.status = "not_found"
            /\ expense_cache' = expense_cache
            /\ expenses_csv' = expenses_csv
    ]_vars

ProtectedOps ==
  {"home", "add_expense", "view_expenses", "set_monthly_budget", "save_expenses",
   "track_budget", "edit_expense", "delete_expense"}

\* C11: a protected operation is admitted exactly when the session is logged
\* in and at most 10 minutes have passed since its last successful login; a
\* login stamps the session with the time of the login and no other operation
\* than a login or logout of that client changes the session, so activity
\* does not extend it.
C11_SessionLiveTenMinutesFromLogin ==
  [][ /\ last'.op \in ProtectedOps =>
           LET s == session[last'.client]
           IN  (last'.status # "login_required")
                 <=> ("logged_in" \in DOMAIN s /\ s["logged_in"]
                        /\ now - s["login_time"] <= 10)
      /\ (last'.op = "login" /\ last'.status = "logged_in") =>
           session'[last'.client]["login_time"] = now
      /\ \A c \in Clients :
           ~(last'.client = c /\ last'.op \in {"login", "logout"})
             => session'[c] = session[c]
    ]_vars

\* a protected operation turned away from a session that is still logged in,
\* more than 10 minutes after its login
C11_Witness ==
  /\ last.op \in ProtectedOps
  /\ last.status = "login_required"
  /\ "logged_in" \in DOMAIN session[last.client]
  /\ now - session[last.client]["login_time"] > 10

(* what view_expenses and calculate_total_expenses read for a user: the    *)
(* user's rows of the file, then the user's cached records                 *)
Visible(username) ==
  ReadBackAll(load_expenses(username)) \o OfUser(expense_cache, username)

InFlight(t) == requests[t].pc # "idle"

\* C12: a flush is atomic to readers: no statement of a save_expenses request
\* in flight changes what a reader is shown for that owner (a record is never
\* both committed and pending, and never in neither place).
C12_FlushAtomicToReaders ==
  [][\A t \in Threads :
       (InFlight(t) /\ requests'[t] # requests[t])
         => Visible(requests[t].username)' = Visible(requests[t].username)
    ]_vars

\* C13: when a save_expenses request, whose own write is the content of the
\* file, takes the owner's records out of the cache, every record it takes
\* out is among the rows it wrote: a record added meanwhile is not dropped.
C13_FlushDropsOnlyWrittenRecords ==
  [][\A t \in Threads :
       ( /\ requests[t].pc = "written"
         /\ requests'[t].pc = "idle"
         /\ expenses_csv.content
              = requests[t].existing_expenses
                  \o Rows(requests[t].current_user_cache_expenses) )
         => LET owner == requests[t].username
                dropped == OfUser(expense_cache, owner)
                rows == OfUser(expenses_csv.content, owner)
            IN  /\ Len(rows) >= Len(dropped)
                /\ ReadBackAll(SubSeq(rows, Len(rows) - Len(dropped) + 1, Len(rows)))
                     = dropped
    ]_vars

IsPrefix(p, q) == Len(p) <= Len(q) /\ SubSeq(q, 1, Len(p)) = p

C18_ViewIsCommittedThenPendingOfUser ==
  Served("view_expenses") =>
    LET owner == CurrentUser(last.client)
        shown == last.value.expenses
        committed == SelectSeq(load_expenses_all, LAMBDA r : r.username = owner)
        pending == SelectSeq(expense_cache, LAMBDA e : e.username = owner)
    IN  /\ \A i \in DOMAIN shown : shown[i].username = owner
        /\ Len(shown) = Len(committed) + Len(pending)
        /\ SubSeq(shown, 1, Len(committed)) = committed
        /\ SubSeq(shown, Len(committed) + 1, Len(shown)) = pending

\* a view of one committed and one pending record
C18_Witness ==
  /\ Served("view_expenses")
  /\ Len(last.value.expenses) = 2
  /\ Len(OfUser(expense_cache, CurrentUser(last.client))) = 1

\* C20: save_expenses of one owner leaves the cached records of every other
\* owner in the cache, unchanged and in the same order, and adds no row of
\* another owner to the file.
C20_FlushLeavesOtherOwnersPending ==
  [][Served("save_expenses")' =>
       LET owner == CurrentUser(last'.client)
       IN  /\ NotOfUser(expense_cache', owner) = NotOfUser(expense_cache, owner)
           /\ NotOfUser(load_expenses_all', owner) = NotOfUser(load_expenses_all, owner)
    ]_vars

\* a flush that left another owner's record pending
C20_Witness ==
  /\ Served("save_expenses")
  /\ Len(last.value.written) = 1
  /\ Len(expense_cache) = 1
  /\ expense_cache[1].username # CurrentUser(last.client)

\* C15: the owner of every cached record and of every row of the file is a
\* username of the user table in users.json, also after a restart followed
\* by registrations or budget changes.
C15_EveryOwnerIsRegistered ==
  /\ \A i \in DOMAIN expense_cache : expense_cache[i].username \in RegisteredUsers
  /\ \A i \in DOMAIN load_expenses_all : load_expenses_all[i].username \in RegisteredUsers

CategoryOk(category) ==
  /\ Len(category) > 0
  /\ \A i \in DOMAIN category : category[i] \in Letters \cup Digits \cup {" "}

RecordOk(e) ==
  /\ e.amount.float >= 0
  /\ validate_date(e.date)
  /\ CategoryOk(e.category)
  /\ e.description # ""

FormOk(f) ==
  /\ validate_date(f.date)
  /\ validate_amount(f.amount)
  /\ CategoryOk(f.category)
  /\ f.description # ""

\* C16: every cached record and every row of the file has an amount >= 0, a
\* valid YYYY-MM-DD calendar date, a non-empty category of letters, digits
\* and spaces only and a non-empty description; an add that submits an
\* invalid field is answered with a validation error and leaves the cache
\* unchanged.
C16_EveryRecordValid ==
  [][ /\ \A i \in DOMAIN expense_cache' : RecordOk(expense_cache'[i])
      /\ \A i \in DOMAIN load_expenses_all' : RecordOk(ReadBack(load_expenses_all'[i]))
      /\ \A c \in Clients, f \in ValidityForms :
           (add_expense(c, "POST", f) /\ ~login_required(session[c]) /\ ~FormOk(f))
             => /\ last'.status \in ValidationErrors
                /\ expense_cache' = expense_cache
    ]_vars

Budget(u) == get_user_monthly_budget(user_data, u).value

Registers(u) ==
  last.op = "register" /\ last.status = "registered" /\ last.value.username = u

SetsBudget(u) ==
  /\ last.op = "set_monthly_budget"
  /\ last.status = "budget_set"
  /\ CurrentUser(last.client) = u

\* C17: the budget read for a registered user is 0 from registration on,
\* becomes the submitted amount at each successful set budget of that user
\* (0 included), and is changed by nothing else: not by a rejected set
\* budget, another user's requests or a restart.
C17_BudgetIsMostRecentSuccessfulSet ==
  [][\A u \in Users :
       /\ Registers(u)' => Budget(u)' = 0
       /\ u \in RegisteredUsers =>
            IF SetsBudget(u)' THEN Budget(u)' = last'.value.budget
            ELSE Budget(u)' = Budget(u)
    ]_vars

\* C19: the password_hash stored for a user in users.json is changed by no
\* step other than a registration of that username; set budget leaves it as
\* registration wrote it, also right after a restart.
C19_PasswordHashSetOnlyByRegistration ==
  [][\A u \in Users :
       (u \in RegisteredUsers /\ u \in RegisteredUsers' /\ ~Registers(u)')
         => load_user_data'[u]["password_hash"] = load_user_data[u]["password_hash"]
    ]_vars

LoggedOut(c) == "logged_in" \notin DOMAIN session[c]

\* C21: a protected operation requested with a session that is not logged in
\* (never logged in, or logged out since) is turned away by login_required
\* and changes neither the cache, the expenses file nor the user table; a
\* logout leaves the session logged out, and a logged out session stays so
\* until a successful login of that client.
C21_LoggedOutSessionRejectedUnchanged ==
  [][ /\ (last'.op \in ProtectedOps /\ LoggedOut(last'.client))
           => /\ last'.status = "login_required"
              /\ expense_cache' = expense_cache
              /\ expenses_csv' = expenses_csv
              /\ users_json' = users_json
              /\ user_data' = user_data
      /\ last'.op = "logout" => "logged_in" \notin DOMAIN session'[last'.client]
      /\ \A c \in Clients :
           (LoggedOut(c) /\ ~(last'.op = "login" /\ last'.status = "logged_in"
                                /\ last'.client = c))
             => LoggedOut(c)'
    ]_vars

\* a protected operation turned away after a logout, while a record entered
\* before the logout is still pending
C21_Witness ==
  /\ last.op \in ProtectedOps
  /\ last.status = "login_required"
  /\ LoggedOut(last.client)
  /\ expense_cache # <<>>

\* C22: with two save_expenses requests of two different users in flight in
\* any interleaving, no rewrite of the file loses a row that was in it, and
\* when a request completes the user's rows of the file are the user's rows
\* it read followed, once, by the records it collected from the cache.
C22_ConcurrentFlushesLoseNothing ==
  [][ /\ IsPrefix(load_expenses_all, load_expenses_all')
      /\ \A t \in Threads :
           (requests[t].pc = "written" /\ requests'[t].pc = "idle")
             => OfUser(load_expenses_all', requests[t].username)
                  = OfUser(requests[t].existing_expenses, requests[t].username)
                      \o Rows(requests[t].current_user_cache_expenses)
    ]_vars

====
